---- MODULE Spec2Model ----
(***************************************************************************)
(* Model of the MDC block-component bracket matcher (find-matching-        *)
(* brackets.ts) and of its editor adapter (bracket-matcher.ts).  A         *)
(* document is a sequence of lines, a line a sequence of one-character     *)
(* strings.  Lines, columns and bracket indices are zero-based as in the   *)
(* source; At(s, i) reads the i-th element of a zero-based array.  The     *)
(* editor's line numbers and columns are one-based.                        *)
(***************************************************************************)
EXTENDS Integers, Sequences, FiniteSets, TLC

VARIABLES
  document,         \* the caller's document; in the adapter, the text model
  position,         \* the position of the last query
  result,           \* what the last query returned
  getLineCalls,     \* the getLine calls of the last query
  warned,           \* whether the last query logged a warning
  pc,               \* what the last step was
  opts,             \* the adapter's merged options
  hasModel,         \* whether monacoEditor.getModel() gives a model
  cursor,           \* monacoEditor.getPosition()
  phase,            \* "new", "registered" or "disposed"
  listening,        \* whether the cursor listener is registered
  decorations,      \* the decoration ids the adapter tracks
  modelDecorations  \* the decorations in the text model

coreVars == <<document, position, result, getLineCalls, warned, pc>>
adapterVars ==
  <<opts, hasModel, cursor, phase, listening, decorations, modelDecorations>>
vars == <<coreVars, adapterVars>>

(***************************************************************************)
(* Bounds of the checked instances.                                        *)
(***************************************************************************)
MaxLines == 4
MaxFenceLines == 5
MaxFailLines == 2
MaxSpanLines == 3
MaxColumn == 5
MaxAdapterLines == 3
MaxLimit == 2

(***************************************************************************)
(* Character classes of the regular expressions.                           *)
(***************************************************************************)
WhiteSpace == {" ", "\t"}
WordChars == {"a", "b", "j", "s", "x", "0", "_", "-"}
Colon == {":"}
\* The backtick cannot be written in a TLA+ string; BQ stands for it.
BQ == "backquote"
Backtick == {BQ}
Tilde == {"~"}

(***************************************************************************)
(* Values.                                                                 *)
(***************************************************************************)
Null == [tag |-> "null"]
Throw == [tag |-> "throw"]
Pending == [tag |-> "pending"]
NoMatch == [found |-> FALSE]

At(s, i) == s[i + 1]

(***************************************************************************)
(* String primitives.                                                      *)
(***************************************************************************)
\* Length of the maximal run of characters of cs that starts at the
\* zero-based offset i of s.
RECURSIVE RunLength(_, _, _)
RunLength(s, i, cs) ==
  IF i >= Len(s) \/ At(s, i) \notin cs THEN 0
  ELSE 1 + RunLength(s, i + 1, cs)

\* Length of the maximal run of characters of cs that ends at the end of
\* the first n characters of s.
RECURSIVE TrailingRun(_, _, _)
TrailingRun(s, n, cs) ==
  IF n = 0 \/ s[n] \notin cs THEN 0
  ELSE 1 + TrailingRun(s, n - 1, cs)

\* s.slice(from, to)
Slice(s, from, to) == SubSeq(s, from + 1, to)

\* String.prototype.trimEnd in the place of trim.
TrimEndOnly(s) == Slice(s, 0, Len(s) - TrailingRun(s, Len(s), WhiteSpace))

\* String.prototype.trim
Trim(s) ==
  LET lead == RunLength(s, 0, WhiteSpace)
      trail == TrailingRun(s, Len(s), WhiteSpace)
  IN IF lead = Len(s) THEN <<>> ELSE Slice(s, lead, Len(s) - trail)

OccursAt(s, needle, i) ==
  /\ i + Len(needle) <= Len(s)
  /\ Slice(s, i, i + Len(needle)) = needle

\* String.prototype.indexOf
IndexOf(s, needle) ==
  IF \E i \in 0..Len(s) : OccursAt(s, needle, i)
  THEN CHOOSE i \in 0..Len(s) :
         /\ OccursAt(s, needle, i)
         /\ \A j \in 0..(i - 1) : ~OccursAt(s, needle, j)
  ELSE -1

\* String.prototype.lastIndexOf
LastIndexOf(s, needle) ==
  IF \E i \in 0..Len(s) : OccursAt(s, needle, i)
  THEN CHOOSE i \in 0..Len(s) :
         /\ OccursAt(s, needle, i)
         /\ \A j \in (i + 1)..Len(s) : ~OccursAt(s, needle, j)
  ELSE -1

(***************************************************************************)
(* The regular expressions.  A match is [found, index, g0, g1, g2]: the    *)
(* offset of the match, the matched text and the capture groups.  The      *)
(* classes \s, : and [\w-] are pairwise disjoint, so the greedy match of   *)
(* each run is the only one.                                               *)
(***************************************************************************)
\* /^\s*(:{2,})([\w-]+)/
OpeningLineRe(s) ==
  LET ws == RunLength(s, 0, WhiteSpace)
      colons == RunLength(s, ws, Colon)
      name == RunLength(s, ws + colons, WordChars)
  IN IF colons >= 2 /\ name >= 1
     THEN [found |-> TRUE, index |-> 0,
           g0 |-> Slice(s, 0, ws + colons + name),
           g1 |-> Slice(s, ws, ws + colons),
           g2 |-> Slice(s, ws + colons, ws + colons + name)]
     ELSE NoMatch

\* /^\s*(:{2,})\s*$/
ClosingLineRe(s) ==
  LET ws == RunLength(s, 0, WhiteSpace)
      colons == RunLength(s, ws, Colon)
      rest == RunLength(s, ws + colons, WhiteSpace)
  IN IF colons >= 2 /\ ws + colons + rest = Len(s)
     THEN [found |-> TRUE, index |-> 0,
           g0 |-> s,
           g1 |-> Slice(s, ws, ws + colons),
           g2 |-> <<>>]
     ELSE NoMatch

\* A fence test that knows the backquote marker only.
FenceReBacktickOnly(s) ==
  RunLength(s, RunLength(s, 0, WhiteSpace), Backtick) >= 3

\* The fence test /^\s*(?:BQ{3,}|~{3,})/
FenceRe(s) ==
  LET ws == RunLength(s, 0, WhiteSpace)
  IN \/ RunLength(s, ws, Backtick) >= 3
     \/ RunLength(s, ws, Tilde) >= 3

\* The opening pattern with [\w-]* for the name.
OpeningTrimmedReEmptyName(s) ==
  LET colons == RunLength(s, 0, Colon)
      name == RunLength(s, colons, WordChars)
  IN IF colons >= 2
     THEN [found |-> TRUE, index |-> 0,
           g0 |-> Slice(s, 0, colons + name),
           g1 |-> Slice(s, 0, colons),
           g2 |-> Slice(s, colons, colons + name)]
     ELSE NoMatch

\* /^(:{2,})([\w-]+)/
OpeningTrimmedRe(s) ==
  LET colons == RunLength(s, 0, Colon)
      name == RunLength(s, colons, WordChars)
  IN IF colons >= 2 /\ name >= 1
     THEN [found |-> TRUE, index |-> 0,
           g0 |-> Slice(s, 0, colons + name),
           g1 |-> Slice(s, 0, colons),
           g2 |-> Slice(s, colons, colons + name)]
     ELSE NoMatch

\* /^(:{2,})$/
ClosingTrimmedRe(s) ==
  LET colons == RunLength(s, 0, Colon)
  IN IF colons >= 2 /\ colons = Len(s)
     THEN [found |-> TRUE, index |-> 0, g0 |-> s, g1 |-> s, g2 |-> <<>>]
     ELSE NoMatch

\* The unanchored pattern matches at offset i when a colon run of two or
\* more starts there and a name character follows the whole run.
OpeningAt(s, i) ==
  LET colons == RunLength(s, i, Colon)
  IN colons >= 2 /\ RunLength(s, i + colons, WordChars) >= 1

\* /(:{2,})([\w-]+)/ : the leftmost match
OpeningAnywhereRe(s) ==
  IF \E i \in 0..Len(s) : OpeningAt(s, i)
  THEN LET i == CHOOSE k \in 0..Len(s) :
                  OpeningAt(s, k) /\ \A j \in 0..(k - 1) : ~OpeningAt(s, j)
           colons == RunLength(s, i, Colon)
           name == RunLength(s, i + colons, WordChars)
       IN [found |-> TRUE, index |-> i,
           g0 |-> Slice(s, i, i + colons + name),
           g1 |-> Slice(s, i, i + colons),
           g2 |-> Slice(s, i + colons, i + colons + name)]
  ELSE NoMatch

\* /(:{2,})$/ : the leftmost match is the whole colon run that ends the
\* string.
ColonsAtEndRe(s) ==
  LET colons == TrailingRun(s, Len(s), Colon)
  IN IF colons >= 2
     THEN [found |-> TRUE, index |-> Len(s) - colons,
           g0 |-> Slice(s, Len(s) - colons, Len(s)),
           g1 |-> Slice(s, Len(s) - colons, Len(s)),
           g2 |-> <<>>]
     ELSE NoMatch

(***************************************************************************)
(* The document accessor.  failAt = 0 is an accessor that never fails;     *)
(* failAt = k > 0 one whose k-th getLine call of a query throws.           *)
(***************************************************************************)
TextDocument(lines, failAt) ==
  [lines |-> lines, lineCount |-> Len(lines), failAt |-> failAt]

\* document.getLine(lineNumber), as the callNo-th call of the query
getLine(doc, lineNumber, callNo) ==
  IF doc.failAt = callNo THEN Throw
  ELSE [tag |-> "ok", value |-> At(doc.lines, lineNumber)]

(***************************************************************************)
(* detectBracketAtPosition                                                 *)
(***************************************************************************)
\* detectBracketAtPosition with the end of both spans exclusive.
detectBracketAtPositionExclusiveEnd(lineContent, column) ==
  LET openingMatch == OpeningLineRe(lineContent)
      closingMatch == ClosingLineRe(lineContent)
      openingHit ==
        /\ openingMatch.found
        /\ LET colonStart == openingMatch.index
                               + IndexOf(openingMatch.g0, openingMatch.g1)
               componentNameEnd == colonStart + Len(openingMatch.g1)
                                     + Len(openingMatch.g2)
           IN column >= colonStart /\ column < componentNameEnd
      closingHit ==
        /\ closingMatch.found
        /\ LET colonCount == Len(closingMatch.g1)
               colonStart == closingMatch.index
                               + IndexOf(closingMatch.g0, closingMatch.g1)
               colonEnd == colonStart + colonCount
           IN column >= colonStart /\ column < colonEnd
  IN IF openingHit THEN [colonCount |-> Len(openingMatch.g1)]
     ELSE IF closingHit THEN [colonCount |-> Len(closingMatch.g1)]
     ELSE Null

\* detectBracketAtPosition without the column tests.
detectBracketAtPositionAnyColumn(lineContent, column) ==
  LET openingMatch == OpeningLineRe(lineContent)
      closingMatch == ClosingLineRe(lineContent)
  IN IF openingMatch.found THEN [colonCount |-> Len(openingMatch.g1)]
     ELSE IF closingMatch.found THEN [colonCount |-> Len(closingMatch.g1)]
     ELSE Null

detectBracketAtPosition(lineContent, column) ==
  LET openingMatch == OpeningLineRe(lineContent)
      closingMatch == ClosingLineRe(lineContent)
      openingHit ==
        /\ openingMatch.found
        /\ LET colonStart == openingMatch.index
                               + IndexOf(openingMatch.g0, openingMatch.g1)
               componentNameEnd == colonStart + Len(openingMatch.g1)
                                     + Len(openingMatch.g2)
           IN column >= colonStart /\ column <= componentNameEnd
      closingHit ==
        /\ closingMatch.found
        /\ LET colonCount == Len(closingMatch.g1)
               colonStart == closingMatch.index
                               + IndexOf(closingMatch.g0, closingMatch.g1)
               colonEnd == colonStart + colonCount
           IN column >= colonStart /\ column <= colonEnd
  IN IF openingHit THEN [colonCount |-> Len(openingMatch.g1)]
     ELSE IF closingHit THEN [colonCount |-> Len(closingMatch.g1)]
     ELSE Null

(***************************************************************************)
(* scanAllBrackets                                                         *)
(***************************************************************************)
BracketBlock(line, colonCount, isOpening, tagName) ==
  [line |-> line, colonCount |-> colonCount, isOpening |-> isOpening,
   tagName |-> tagName]

NullName == [isNull |-> TRUE, text |-> <<>>]
Name(text) == [isNull |-> FALSE, text |-> text]

\* scanLine without the skip of the lines inside a code block.
scanLineIgnoringFences(lineNumber, lineContent, insideCodeBlock) ==
  LET trimmed == Trim(lineContent)
      openingMatch == OpeningTrimmedRe(trimmed)
      closingMatch == ClosingTrimmedRe(trimmed)
  IN IF FenceRe(trimmed)
     THEN [insideCodeBlock |-> ~insideCodeBlock, push |-> <<>>]
     ELSE IF openingMatch.found
     THEN [insideCodeBlock |-> insideCodeBlock,
           push |-> <<BracketBlock(lineNumber, Len(openingMatch.g1), TRUE,
                                   Name(openingMatch.g2))>>]
     ELSE IF closingMatch.found
     THEN [insideCodeBlock |-> insideCodeBlock,
           push |-> <<BracketBlock(lineNumber, Len(closingMatch.g1), FALSE,
                                   NullName)>>]
     ELSE [insideCodeBlock |-> insideCodeBlock, push |-> <<>>]

\* The body of the line loop on one line that was read: the new value of
\* insideCodeBlock and the brackets pushed (none or one).
scanLine(lineNumber, lineContent, insideCodeBlock) ==
  LET trimmed == Trim(lineContent)
      openingMatch == OpeningTrimmedRe(trimmed)
      closingMatch == ClosingTrimmedRe(trimmed)
  IN IF FenceRe(trimmed)
     THEN [insideCodeBlock |-> ~insideCodeBlock, push |-> <<>>]
     ELSE IF insideCodeBlock
     THEN [insideCodeBlock |-> insideCodeBlock, push |-> <<>>]
     ELSE IF openingMatch.found
     THEN [insideCodeBlock |-> insideCodeBlock,
           push |-> <<BracketBlock(lineNumber, Len(openingMatch.g1), TRUE,
                                   Name(openingMatch.g2))>>]
     ELSE IF closingMatch.found
     THEN [insideCodeBlock |-> insideCodeBlock,
           push |-> <<BracketBlock(lineNumber, Len(closingMatch.g1), FALSE,
                                   NullName)>>]
     ELSE [insideCodeBlock |-> insideCodeBlock, push |-> <<>>]

\* for (let lineNumber = 0; lineNumber < document.lineCount; lineNumber++);
\* calls is the number of getLine calls the query made so far.
RECURSIVE scanLoop(_, _, _, _, _)
scanLoop(doc, lineNumber, insideCodeBlock, brackets, calls) ==
  IF lineNumber >= doc.lineCount
  THEN [tag |-> "ok", brackets |-> brackets, calls |-> calls]
  ELSE
    LET read == getLine(doc, lineNumber, calls + 1) IN
    IF read = Throw THEN [tag |-> "throw", calls |-> calls + 1]
    ELSE
      LET step == scanLine(lineNumber, read.value, insideCodeBlock)
      IN scanLoop(doc, lineNumber + 1, step.insideCodeBlock,
                  brackets \o step.push, calls + 1)

scanAllBrackets(doc, calls) == scanLoop(doc, 0, FALSE, <<>>, calls)

(***************************************************************************)
(* findMatchingBracket                                                     *)
(***************************************************************************)
Top(stack) == stack[Len(stack)]
Pop(stack) == SubSeq(stack, 1, Len(stack) - 1)

\* forwardStep popping on any closing, whatever its colon count.
forwardStepAnyCount(stack, bracket) ==
  IF bracket.isOpening
  THEN [stack |-> Append(stack, bracket), found |-> FALSE]
  ELSE IF Len(stack) > 0
  THEN [stack |-> Pop(stack), found |-> Len(Pop(stack)) = 0]
  ELSE [stack |-> stack, found |-> FALSE]

\* forwardStep that does not push the openings it passes.
forwardStepNoPush(stack, bracket) ==
  IF bracket.isOpening
  THEN [stack |-> stack, found |-> FALSE]
  ELSE IF Len(stack) > 0 /\ Top(stack).colonCount = bracket.colonCount
  THEN [stack |-> Pop(stack), found |-> Len(Pop(stack)) = 0]
  ELSE [stack |-> stack, found |-> FALSE]

\* forwardStep that pushes a closing whose colon count differs from the top.
forwardStepPushMismatch(stack, bracket) ==
  IF bracket.isOpening
  THEN [stack |-> Append(stack, bracket), found |-> FALSE]
  ELSE IF Len(stack) > 0 /\ Top(stack).colonCount = bracket.colonCount
  THEN [stack |-> Pop(stack), found |-> Len(Pop(stack)) = 0]
  ELSE [stack |-> Append(stack, bracket), found |-> FALSE]

\* forwardStep that closes the nearest bracket of the stack with the closing's
\* colon count, the top or not, and drops what lies above it.
forwardStepSearchStack(stack, bracket) ==
  IF bracket.isOpening
  THEN [stack |-> Append(stack, bracket), found |-> FALSE]
  ELSE IF \E k \in 1..Len(stack) : stack[k].colonCount = bracket.colonCount
  THEN LET k == CHOOSE k \in 1..Len(stack) :
                  /\ stack[k].colonCount = bracket.colonCount
                  /\ \A m \in (k + 1)..Len(stack) :
                       stack[m].colonCount # bracket.colonCount
       IN [stack |-> SubSeq(stack, 1, k - 1), found |-> k = 1]
  ELSE [stack |-> stack, found |-> FALSE]

\* The body of the forward loop on one bracket: the stack after it and
\* whether the bracket is returned as the match.
forwardStep(stack, bracket) ==
  IF bracket.isOpening
  THEN [stack |-> Append(stack, bracket), found |-> FALSE]
  ELSE IF Len(stack) > 0 /\ Top(stack).colonCount = bracket.colonCount
  THEN [stack |-> Pop(stack), found |-> Len(Pop(stack)) = 0]
  ELSE [stack |-> stack, found |-> FALSE]

\* for (let i = currentIndex + 1; i < brackets.length; i++)
RECURSIVE forwardLoop(_, _, _)
forwardLoop(brackets, i, stack) ==
  IF i >= Len(brackets) THEN Null
  ELSE
    LET step == forwardStep(stack, At(brackets, i)) IN
    IF step.found THEN At(brackets, i)
    ELSE forwardLoop(brackets, i + 1, step.stack)

\* backwardStep that does not push the closings it passes.
backwardStepNoPush(stack, bracket) ==
  IF ~bracket.isOpening
  THEN [stack |-> stack, found |-> FALSE]
  ELSE IF Len(stack) > 0 /\ Top(stack).colonCount = bracket.colonCount
  THEN [stack |-> Pop(stack), found |-> Len(Pop(stack)) = 0]
  ELSE [stack |-> stack, found |-> FALSE]

\* The body of the backward loop on one bracket.
backwardStep(stack, bracket) ==
  IF ~bracket.isOpening
  THEN [stack |-> Append(stack, bracket), found |-> FALSE]
  ELSE IF Len(stack) > 0 /\ Top(stack).colonCount = bracket.colonCount
  THEN [stack |-> Pop(stack), found |-> Len(Pop(stack)) = 0]
  ELSE [stack |-> stack, found |-> FALSE]

\* for (let i = currentIndex - 1; i >= 0; i--)
RECURSIVE backwardLoop(_, _, _)
backwardLoop(brackets, i, stack) ==
  IF i < 0 THEN Null
  ELSE
    LET step == backwardStep(stack, At(brackets, i)) IN
    IF step.found THEN At(brackets, i)
    ELSE backwardLoop(brackets, i - 1, step.stack)

findMatchingBracket(brackets, currentIndex) ==
  LET currentBracket == At(brackets, currentIndex) IN
  IF currentBracket.isOpening
  THEN forwardLoop(brackets, currentIndex + 1, <<currentBracket>>)
  ELSE backwardLoop(brackets, currentIndex - 1, <<currentBracket>>)

(***************************************************************************)
(* createBracketRange                                                      *)
(***************************************************************************)
Range(startLine, startColumn, endLine, endColumn) ==
  [startLine |-> startLine, startColumn |-> startColumn,
   endLine |-> endLine, endColumn |-> endColumn]

\* The range of a bracket on the line text lineContent.
bracketRangeOnLine(lineContent, bracket) ==
  LET lineNumber == bracket.line
      openingMatch == OpeningAnywhereRe(lineContent)
      closingMatch == ColonsAtEndRe(lineContent)
  IN IF bracket.isOpening /\ openingMatch.found
     THEN LET startColumn == IndexOf(lineContent, openingMatch.g0)
          IN Range(lineNumber, startColumn, lineNumber,
                   startColumn + Len(openingMatch.g0))
     ELSE IF ~bracket.isOpening /\ closingMatch.found
     THEN LET startColumn == LastIndexOf(lineContent, closingMatch.g0)
          IN Range(lineNumber, startColumn, lineNumber,
                   startColumn + Len(closingMatch.g0))
     ELSE Range(lineNumber, 0, lineNumber, Len(lineContent))

createBracketRange(doc, bracket, callNo) ==
  LET read == getLine(doc, bracket.line, callNo) IN
  IF read = Throw THEN Throw
  ELSE bracketRangeOnLine(read.value, bracket)

(***************************************************************************)
(* findMatchingBrackets                                                    *)
(***************************************************************************)
BracketMatch(opening, closing, colonCount) ==
  [opening |-> opening, closing |-> closing, colonCount |-> colonCount]

IsMatch(r) == "opening" \in DOMAIN r

\* findIndex with the test b.line <= line.
findIndexAtOrBefore(brackets, line) ==
  IF \E i \in 0..(Len(brackets) - 1) : At(brackets, i).line <= line
  THEN CHOOSE i \in 0..(Len(brackets) - 1) :
         /\ At(brackets, i).line <= line
         /\ \A j \in 0..(i - 1) : At(brackets, j).line > line
  ELSE -1

\* brackets.findIndex(b => b.line === line)
findIndex(brackets, line) ==
  IF \E i \in 0..(Len(brackets) - 1) : At(brackets, i).line = line
  THEN CHOOSE i \in 0..(Len(brackets) - 1) :
         /\ At(brackets, i).line = line
         /\ \A j \in 0..(i - 1) : At(brackets, j).line # line
  ELSE -1

Outcome(ret, calls) == [ret |-> ret, calls |-> calls]

\* buildMatch that reports the cursor's bracket as the opening whatever its
\* role.
buildMatchCursorFirst(doc, currentBracket, matchingBracket, calls) ==
  LET opening == createBracketRange(doc, currentBracket, calls + 1)
      closing == createBracketRange(doc, matchingBracket, calls + 2)
  IN IF opening = Throw THEN Outcome(Throw, calls + 1)
     ELSE IF closing = Throw THEN Outcome(Throw, calls + 2)
     ELSE Outcome(BracketMatch(opening, closing, currentBracket.colonCount),
                  calls + 2)

\* The two createBracketRange calls and the object literal of the return
\* statement, evaluated in source order.
buildMatch(doc, currentBracket, matchingBracket, calls) ==
  LET opening ==
        createBracketRange(doc,
          IF currentBracket.isOpening THEN currentBracket
          ELSE matchingBracket, calls + 1)
      closing ==
        createBracketRange(doc,
          IF currentBracket.isOpening THEN matchingBracket
          ELSE currentBracket, calls + 2)
  IN IF opening = Throw THEN Outcome(Throw, calls + 1)
     ELSE IF closing = Throw THEN Outcome(Throw, calls + 2)
     ELSE Outcome(BracketMatch(opening, closing, currentBracket.colonCount),
                  calls + 2)

\* The try block is modelled in stages, each an operator that takes what the
\* stage before it computed; every stage yields what the block returns, or
\* Throw, and the number of getLine calls made.

\* From the test of matchingBracket on.
afterMatch(doc, currentBracket, matchingBracket, calls) ==
  IF matchingBracket = Null THEN Outcome(Null, calls)
  ELSE buildMatch(doc, currentBracket, matchingBracket, calls)

\* From the test of currentBracketIndex on.
afterFindIndex(doc, brackets, currentBracketIndex, calls) ==
  IF currentBracketIndex = -1 THEN Outcome(Null, calls)
  ELSE afterMatch(doc, At(brackets, currentBracketIndex),
                  findMatchingBracket(brackets, currentBracketIndex), calls)

\* From the test of brackets.length on; scan is what scanAllBrackets did.
afterScan(doc, pos, scan) ==
  IF scan.tag = "throw" THEN Outcome(Throw, scan.calls)
  ELSE IF Len(scan.brackets) = 0 THEN Outcome(Null, scan.calls)
  ELSE afterFindIndex(doc, scan.brackets, findIndex(scan.brackets, pos.line),
                      scan.calls)

\* afterRead that scans the document before it classifies the cursor's line.
afterReadScanFirst(doc, pos, read) ==
  IF read = Throw THEN Outcome(Throw, 1)
  ELSE IF detectBracketAtPosition(read.value, pos.column) = Null
  THEN Outcome(Null, scanAllBrackets(doc, 1).calls)
  ELSE afterScan(doc, pos, scanAllBrackets(doc, 1))

\* From the classification of the cursor's line on; read is what getLine did.
afterRead(doc, pos, read) ==
  IF read = Throw THEN Outcome(Throw, 1)
  ELSE IF detectBracketAtPosition(read.value, pos.column) = Null
  THEN Outcome(Null, 1)
  ELSE afterScan(doc, pos, scanAllBrackets(doc, 1))

tryBody(doc, pos) == afterRead(doc, pos, getLine(doc, pos.line, 1))

\* A catch clause that lets the failure through.
catchRethrow(ret) == ret

\* catch (error) { console.warn(...); return null }
catch(ret) == IF ret = Throw THEN Null ELSE ret

\* What the caller sees of the outcome body of the try block.
afterTry(body) ==
  [ret |-> catch(body.ret), calls |-> body.calls, warned |-> body.ret = Throw]

findMatchingBrackets(doc, pos) == afterTry(tryBody(doc, pos))

(***************************************************************************)
(* registerBracketMatcher                                                  *)
(***************************************************************************)
DefaultMaxLineCount == 5000

DEFAULT_OPTIONS == [maxLineCount |-> DefaultMaxLineCount]

\* getLine: n => model.getLineContent(n + 1), lineCount: model.getLineCount();
\* line n + 1 of the text model is the element n of its zero-based lines.
createTextDocument(model) == TextDocument(model.lines, model.failAt)

createPosition(p) == [line |-> p.lineNumber - 1, column |-> p.column - 1]

\* The editor's range of a range of the matcher.
MonacoRange(r) ==
  [startLineNumber |-> r.startLine + 1, startColumn |-> r.startColumn + 1,
   endLineNumber |-> r.endLine + 1, endColumn |-> r.endColumn + 1]

\* n identifiers that no decoration of the model has.
RECURSIVE FreshIds(_, _)
FreshIds(used, n) ==
  IF n = 0 THEN <<>>
  ELSE LET id == CHOOSE i \in 0..Cardinality(used) :
                   /\ i \notin used
                   /\ \A j \in 0..(i - 1) : j \in used
       IN <<id>> \o FreshIds(used \cup {id}, n - 1)

\* model.deltaDecorations(oldDecorations, newDecorations): the decorations
\* named in oldDecorations leave the model, one decoration per element of
\* newDecorations enters it, and the identifiers of these are returned.
deltaDecorations(store, oldDecorations, newDecorations) ==
  LET ids == FreshIds({ d.id : d \in store }, Len(newDecorations))
      old == { oldDecorations[k] : k \in 1..Len(oldDecorations) }
  IN [store |-> { d \in store : d.id \notin old } \cup
                { [id |-> ids[k], range |-> newDecorations[k]] :
                    k \in 1..Len(newDecorations) },
      ids |-> ids]

\* The size test with >= in the place of >.
overLimitInclusive(maxLineCount, lineCount) ==
  maxLineCount > 0 /\ lineCount >= maxLineCount

\* opts.maxLineCount > 0 && model.getLineCount() > opts.maxLineCount
overLimit(maxLineCount, lineCount) ==
  maxLineCount > 0 /\ lineCount > maxLineCount

\* An update that made no query.
NoQuery == [ret |-> Pending, calls |-> 0, warned |-> FALSE]

\* redecorate that passes no old decoration to deltaDecorations.
redecorateKeepingOld(store, tracked, newDecorations, query) ==
  LET delta == deltaDecorations(store, <<>>, newDecorations)
  IN [store |-> delta.store, decorations |-> delta.ids, query |-> query]

\* decorations = model.deltaDecorations(decorations, newDecorations); query
\* is what the update saw of findMatchingBrackets.
redecorate(store, tracked, newDecorations, query) ==
  LET delta == deltaDecorations(store, tracked, newDecorations)
  IN [store |-> delta.store, decorations |-> delta.ids, query |-> query]

\* The two decorations of a match.
matchDecorations(match) ==
  <<MonacoRange(match.opening), MonacoRange(match.closing)>>

\* From the test of match on.
afterQuery(store, tracked, query) ==
  IF query.ret = Null THEN redecorate(store, tracked, <<>>, query)
  ELSE redecorate(store, tracked, matchDecorations(query.ret), query)

\* updateBracketDecorations(p) on the text model, the model's decorations
\* store and the tracked identifiers.
updateBracketDecorations(model, hasM, options, store, tracked, p) ==
  IF ~hasM
  THEN [store |-> store, decorations |-> tracked, query |-> NoQuery]
  ELSE IF overLimit(options.maxLineCount, model.lineCount)
  THEN redecorate(store, tracked, <<>>, NoQuery)
  ELSE afterQuery(store, tracked,
                  findMatchingBrackets(createTextDocument(model),
                                       createPosition(p)))

(***************************************************************************)
(* updateBracketDecorations on an editor whose calls may throw.  A plan    *)
(* names the operations that fail and which of their calls within one      *)
(* update do: the first, the second or both.  A call that throws changes   *)
(* nothing.                                                                *)
(***************************************************************************)
EditorOps == {"getModel", "getLineCount", "getLineContent", "deltaDecorations"}

NoFailure == [ops |-> {}, calls |-> {}]

\* One failing operation, and a disposed text model, on which every
\* operation of the model throws at every call.
FailurePlans ==
  { [ops |-> {op}, calls |-> c] : op \in EditorOps, c \in {{1}, {2}, {1, 2}} }
    \cup { [ops |-> EditorOps \ {"getModel"}, calls |-> {1, 2}] }

Fails(plan, op, n) == op \in plan.ops /\ n \in plan.calls

\* What an update leaves behind and how it ended: "updated" through the try
\* block, "recovered" through the catch block, "threw" with an exception
\* that leaves the function.
Ended(store, tracked, query, how) ==
  [store |-> store, decorations |-> tracked, query |-> query, how |-> how]

\* The catch block; deltaCalls counts the deltaDecorations calls of the try
\* block.
catchUpdate(hasM, store, tracked, query, plan, deltaCalls) ==
  IF Fails(plan, "getModel", 2)
  THEN Ended(store, tracked, query, "threw")
  ELSE IF hasM /\ Len(tracked) > 0
  THEN IF Fails(plan, "deltaDecorations", deltaCalls + 1)
       THEN Ended(store, tracked, query, "threw")
       ELSE Ended(deltaDecorations(store, tracked, <<>>).store, <<>>, query,
                  "recovered")
  ELSE Ended(store, tracked, query, "recovered")

\* decorations = model.deltaDecorations(decorations, newDecorations) in the
\* try block.
tryRedecorate(hasM, store, tracked, newDecorations, query, plan) ==
  IF Fails(plan, "deltaDecorations", 1)
  THEN catchUpdate(hasM, store, tracked, query, plan, 1)
  ELSE Ended(deltaDecorations(store, tracked, newDecorations).store,
             deltaDecorations(store, tracked, newDecorations).ids,
             query, "updated")

tryAfterQuery(hasM, store, tracked, query, plan) ==
  IF query.ret = Null
  THEN tryRedecorate(hasM, store, tracked, <<>>, query, plan)
  ELSE tryRedecorate(hasM, store, tracked, matchDecorations(query.ret), query,
                     plan)

\* The document of createTextDocument on a model whose getLineContent
\* fails as the plan says; the matcher stops at the first getLine that throws.
failingDocument(model, plan) ==
  TextDocument(model.lines,
               IF "getLineContent" \notin plan.ops THEN 0
               ELSE IF 1 \in plan.calls THEN 1 ELSE 2)

\* From createTextDocument on; countCalls counts the getLineCount calls
\* before it.
tryQuery(model, hasM, store, tracked, p, plan, countCalls) ==
  IF Fails(plan, "getLineCount", countCalls + 1)
  THEN catchUpdate(hasM, store, tracked, NoQuery, plan, 0)
  ELSE tryAfterQuery(hasM, store, tracked,
                     findMatchingBrackets(failingDocument(model, plan),
                                          createPosition(p)),
                     plan)

\* From the size test on; getLineCount is called only for a positive limit.
trySizeTest(model, hasM, options, store, tracked, p, plan) ==
  IF options.maxLineCount > 0
  THEN IF Fails(plan, "getLineCount", 1)
       THEN catchUpdate(hasM, store, tracked, NoQuery, plan, 0)
       ELSE IF model.lineCount > options.maxLineCount
       THEN tryRedecorate(hasM, store, tracked, <<>>, NoQuery, plan)
       ELSE tryQuery(model, hasM, store, tracked, p, plan, 1)
  ELSE tryQuery(model, hasM, store, tracked, p, plan, 0)

updateBracketDecorationsFailing(model, hasM, options, store, tracked, p, plan) ==
  IF Fails(plan, "getModel", 1)
  THEN catchUpdate(hasM, store, tracked, NoQuery, plan, 0)
  ELSE IF ~hasM THEN Ended(store, tracked, NoQuery, "updated")
  ELSE trySizeTest(model, hasM, options, store, tracked, p, plan)

\* dispose that leaves the decorations in the model.
disposeDecorationsKept(hasM, store, tracked) == store

\* dispose: if (model) { model.deltaDecorations(decorations, []) }
disposeDecorations(hasM, store, tracked) ==
  IF hasM THEN deltaDecorations(store, tracked, <<>>).store ELSE store

(***************************************************************************)
(* The lines and documents of the checked instances.                       *)
(***************************************************************************)
\* Delimiters of two colon counts, a closing delimiter inside whitespace and a
\* line of text: the documents of the matching properties.
LineSet ==
  { <<":", ":", "a">>,
    <<":", ":", ":", "b">>,
    <<":", ":">>,
    <<":", ":", ":">>,
    <<" ", ":", ":", " ">>,
    <<"x">> }

\* Delimiters with and without whitespace around them, a fence marker and a
\* line of text: the documents of the column properties.
SpanLineSet ==
  { <<":", ":", "a">>,
    <<" ", ":", ":", "a", " ">>,
    <<"\t", ":", ":", "a", "-">>,
    <<":", ":">>,
    <<" ", ":", ":", " ">>,
    <<":", ":", ":">>,
    <<BQ, BQ, BQ>>,
    <<"x">> }

\* Delimiters, fence markers of both kinds and a run too short for a fence:
\* the documents of the fence properties.
FenceLineSet ==
  { <<":", ":", "a">>,
    <<":", ":">>,
    <<BQ, BQ, BQ, "j", "s">>,
    <<" ", "~", "~", "~">>,
    <<BQ, BQ>> }

\* An opening, a closing and a line of text: the text models of the adapter.
AdapterLineSet ==
  { <<":", ":", "a">>,
    <<":", ":">>,
    <<"x">> }

SeqsUpTo(S, n) == UNION { [1..k -> S] : k \in 1..n }

Positions(doc) ==
  { [line |-> l, column |-> c] : l \in 0..(doc.lineCount - 1),
                                 c \in 0..MaxColumn }

\* The cursor positions of the editor on a text model.
MonacoPositions(model, hasM) ==
  IF hasM
  THEN { [lineNumber |-> l, column |-> c] : l \in 1..model.lineCount,
                                            c \in 1..(MaxColumn + 1) }
  ELSE { [lineNumber |-> 1, column |-> 1] }

(***************************************************************************)
(* The state machine: a caller holds a document and queries it.            *)
(***************************************************************************)
TypeOK ==
  /\ pc \in {"idle", "returned", "updated", "moved", "edited", "disposed",
            "recovered", "threw"}
  /\ getLineCalls \in Nat
  /\ warned \in BOOLEAN
  /\ hasModel \in BOOLEAN
  /\ listening \in BOOLEAN
  /\ phase \in {"new", "registered", "disposed"}
  /\ opts.maxLineCount \in Nat

\* No adapter is attached to the caller's document.
NoAdapter ==
  /\ opts = DEFAULT_OPTIONS
  /\ hasModel = FALSE
  /\ cursor = Null
  /\ phase = "new"
  /\ listening = FALSE
  /\ decorations = <<>>
  /\ modelDecorations = {}

InitWith(docs) ==
  /\ document \in docs
  /\ position = [line |-> 0, column |-> 0]
  /\ result = Pending
  /\ getLineCalls = 0
  /\ warned = FALSE
  /\ pc = "idle"
  /\ NoAdapter

Init == InitWith({ TextDocument(ls, 0) : ls \in SeqsUpTo(LineSet, MaxLines) })

InitFence ==
  InitWith({ TextDocument(ls, 0) : ls \in SeqsUpTo(FenceLineSet, MaxFenceLines) })

InitSpan ==
  InitWith({ TextDocument(ls, 0) : ls \in SeqsUpTo(SpanLineSet, MaxSpanLines) })

InitFail ==
  InitWith({ TextDocument(ls, k) : ls \in SeqsUpTo(LineSet, MaxFailLines),
                                   k \in 0..(MaxFailLines + 3) })

\* A call of findMatchingBrackets(document, pos).
Query(pos) ==
  /\ pc = "idle"
  /\ \E out \in {findMatchingBrackets(document, pos)} :
       /\ result' = out.ret
       /\ getLineCalls' = out.calls
       /\ warned' = out.warned
  /\ position' = pos
  /\ pc' = "returned"
  /\ UNCHANGED document
  /\ UNCHANGED adapterVars

\* The caller drops the result; nothing of the query is kept.
Return ==
  /\ pc = "returned"
  /\ position' = [line |-> 0, column |-> 0]
  /\ result' = Pending
  /\ getLineCalls' = 0
  /\ warned' = FALSE
  /\ pc' = "idle"
  /\ UNCHANGED document
  /\ UNCHANGED adapterVars

Next ==
  \/ \E pos \in Positions(document) : Query(pos)
  \/ Return

(***************************************************************************)
(* The state machine of the adapter: an editor with a text model, or with  *)
(* none, on which registerBracketMatcher is called; the cursor moves, the  *)
(* text grows, and the returned disposable is disposed.                    *)
(***************************************************************************)
InitAdapter ==
  /\ document \in
       { TextDocument(ls, 0) : ls \in SeqsUpTo(AdapterLineSet, MaxAdapterLines) }
  /\ position = [line |-> 0, column |-> 0]
  /\ result = Pending
  /\ getLineCalls = 0
  /\ warned = FALSE
  /\ pc = "idle"
  /\ opts \in {DEFAULT_OPTIONS} \cup { [maxLineCount |-> n] : n \in 0..MaxLimit }
  /\ hasModel \in BOOLEAN
  /\ cursor = IF hasModel THEN [lineNumber |-> 1, column |-> 1] ELSE Null
  /\ phase = "new"
  /\ listening = FALSE
  /\ decorations = <<>>
  /\ modelDecorations = {}

\* The locals of the last update are gone.
ForgetQuery ==
  /\ position' = [line |-> 0, column |-> 0]
  /\ result' = Pending
  /\ getLineCalls' = 0
  /\ warned' = FALSE

\* A call of updateBracketDecorations(p).
Update(p) ==
  /\ \E u \in {updateBracketDecorations(document, hasModel, opts,
                                         modelDecorations, decorations, p)} :
       /\ decorations' = u.decorations
       /\ modelDecorations' = u.store
       /\ result' = u.query.ret
       /\ getLineCalls' = u.query.calls
       /\ warned' = u.query.warned
  /\ position' = createPosition(p)
  /\ pc' = "updated"

\* registerBracketMatcher(monacoEditor, options): the listener is registered
\* and the decorations are updated for the current position, if there is one.
Register ==
  /\ phase = "new"
  /\ phase' = "registered"
  /\ listening' = TRUE
  /\ IF cursor # Null
     THEN Update(cursor)
     ELSE /\ pc' = "idle"
          /\ UNCHANGED <<decorations, modelDecorations, position, result,
                         getLineCalls, warned>>
  /\ UNCHANGED <<document, opts, hasModel, cursor>>

\* The cursor moves to p; the editor calls the listener if it is registered.
MoveCursor(p) ==
  /\ cursor' = p
  /\ IF listening
     THEN Update(p)
     ELSE /\ pc' = "moved"
          /\ ForgetQuery
          /\ UNCHANGED <<decorations, modelDecorations>>
  /\ UNCHANGED <<document, opts, hasModel, phase, listening>>

\* A line is typed at the end of the text model.
AppendLine(l) ==
  /\ hasModel
  /\ document.lineCount < MaxAdapterLines
  /\ document' = TextDocument(Append(document.lines, l), document.failAt)
  /\ pc' = "edited"
  /\ ForgetQuery
  /\ UNCHANGED adapterVars

\* dispose() of the returned disposable.
Dispose ==
  /\ phase \in {"registered", "disposed"}
  /\ phase' = "disposed"
  /\ listening' = FALSE
  /\ modelDecorations' =
       disposeDecorations(hasModel, modelDecorations, decorations)
  /\ decorations' = <<>>
  /\ pc' = "disposed"
  /\ ForgetQuery
  /\ UNCHANGED <<document, opts, hasModel, cursor>>

\* The cursor moves to p and the listener runs on an editor that fails as
\* the plan says.
FailingMove(p, plan) ==
  /\ listening
  /\ cursor' = p
  /\ \E u \in {updateBracketDecorationsFailing(document, hasModel, opts,
                    modelDecorations, decorations, p, plan)} :
       /\ decorations' = u.decorations
       /\ modelDecorations' = u.store
       /\ result' = u.query.ret
       /\ getLineCalls' = u.query.calls
       /\ warned' = u.query.warned
       /\ pc' = u.how
  /\ position' = createPosition(p)
  /\ UNCHANGED <<document, opts, hasModel, phase, listening>>

NextAdapter ==
  \/ Register
  \/ \E p \in MonacoPositions(document, hasModel) : MoveCursor(p)
  \/ \E l \in AdapterLineSet : AppendLine(l)
  \/ Dispose

NextAdapterFail ==
  \/ NextAdapter
  \/ \E p \in MonacoPositions(document, hasModel), plan \in FailurePlans :
       FailingMove(p, plan)

Spec == Init /\ [][Next]_vars
SpecFence == InitFence /\ [][Next]_vars
SpecSpan == InitSpan /\ [][Next]_vars
SpecFail == InitFail /\ [][Next]_vars
SpecAdapter == InitAdapter /\ [][NextAdapter]_vars
SpecAdapterFail == InitAdapter /\ [][NextAdapterFail]_vars

(***************************************************************************)
(* Vocabulary of the properties: what a line of text is, read from the     *)
(* text alone, and the brackets of the current document.                   *)
(***************************************************************************)
Returned == pc = "returned"

LineAt(l) == At(document.lines, l)
CursorLine == LineAt(position.line)

Indent(l) == RunLength(l, 0, WhiteSpace)
ColonRun(l) == RunLength(l, Indent(l), Colon)
NameRun(l) == RunLength(l, Indent(l) + ColonRun(l), WordChars)

IsOpeningLine(l) == ColonRun(l) >= 2 /\ NameRun(l) >= 1
IsClosingLine(l) ==
  /\ ColonRun(l) >= 2
  /\ \A i \in (Indent(l) + ColonRun(l))..(Len(l) - 1) : At(l, i) \in WhiteSpace

\* The column just after the delimiter of a delimiter line.
SpanEnd(l) ==
  Indent(l) + ColonRun(l) + (IF IsOpeningLine(l) THEN NameRun(l) ELSE 0)

InSpan(l, c) ==
  /\ IsOpeningLine(l) \/ IsClosingLine(l)
  /\ Indent(l) <= c
  /\ c <= SpanEnd(l)

\* The brackets of the document, read through an accessor that does not fail.
Tokens == scanAllBrackets(TextDocument(document.lines, 0), 0).brackets
TokenIndex(l) == findIndex(Tokens, l)
OnDelimiter ==
  TokenIndex(position.line) # -1 /\ InSpan(CursorLine, position.column)
CursorToken == At(Tokens, TokenIndex(position.line))

MatchOnLines(r, openingLine, closingLine) ==
  /\ IsMatch(r)
  /\ r.opening.startLine = openingLine
  /\ r.closing.startLine = closingLine

(***************************************************************************)
(* C1.  Symmetry: when a query returns a match, a query with the cursor on *)
(* the other delimiter of that match returns the same BracketMatch value.  *)
(* The code does not have this property (see SymmetryCounterexample).      *)
(***************************************************************************)
PartnerLine ==
  IF position.line = result.opening.startLine
  THEN result.closing.startLine
  ELSE result.opening.startLine

\* C1: a query at any qualifying column of the partner delimiter returns the
\* same match.
SymmetryCounterexample ==
  (Returned /\ IsMatch(result)) =>
    \A c \in 0..MaxColumn :
      InSpan(LineAt(PartnerLine), c) =>
        findMatchingBrackets(document,
                             [line |-> PartnerLine, column |-> c]).ret = result

(***************************************************************************)
(* C2.  Exact colon-count pairing: in every returned match the colon run   *)
(* of the opening line, the colon run of the closing line and colonCount   *)
(* are one number N >= 2.                                                  *)
(***************************************************************************)
ExactColonCountPairing ==
  (Returned /\ IsMatch(result)) =>
    LET openingRun == ColonRun(LineAt(result.opening.startLine))
        closingRun == ColonRun(LineAt(result.closing.startLine))
    IN /\ openingRun = closingRun
       /\ closingRun = result.colonCount
       /\ result.colonCount >= 2

\* A pair of three colons is matched around a delimiter of two colons.
ExactColonCountWitness ==
  /\ Returned
  /\ IsMatch(result)
  /\ result.colonCount = 3
  /\ \E l \in (result.opening.startLine + 1)..(result.closing.startLine - 1) :
       TokenIndex(l) # -1 /\ ColonRun(LineAt(l)) = 2

(***************************************************************************)
(* C3.  Precise ranges: the opening range spans exactly the colon run and  *)
(* the component name, the closing range exactly the colon run, in raw     *)
(* line offsets, whatever whitespace surrounds the delimiter.  The code    *)
(* does not have this property (see PreciseRangesCounterexample).          *)
(***************************************************************************)
ExactRange(l) ==
  Range(l, Indent(LineAt(l)), l, SpanEnd(LineAt(l)))

\* C3: both ranges of a match are the exact delimiter spans of their lines.
PreciseRangesCounterexample ==
  (Returned /\ IsMatch(result)) =>
    /\ result.opening = ExactRange(result.opening.startLine)
    /\ result.closing = ExactRange(result.closing.startLine)

(***************************************************************************)
(* C4.  Fenced-code exclusion.  A fenced region is the lines between a     *)
(* fence-marker line that opens a fence and the next fence-marker line.    *)
(* (a) no range of a match lies on a fenced line, (b) a query on a fenced  *)
(* line returns null, (c) a query outside the fences returns what it       *)
(* returns on the document without its fenced lines, line numbers shifted. *)
(***************************************************************************)
IsFenceLine(l) ==
  LET body == Indent(l)
  IN RunLength(l, body, Backtick) >= 3 \/ RunLength(l, body, Tilde) >= 3

FencesBefore(ls, i) ==
  Cardinality({ j \in 0..(i - 1) : IsFenceLine(At(ls, j)) })

Fenced(ls, i) ==
  /\ ~IsFenceLine(At(ls, i))
  /\ FencesBefore(ls, i) % 2 = 1
  /\ \E k \in (i + 1)..(Len(ls) - 1) : IsFenceLine(At(ls, k))

FencedBefore(ls, i) == Cardinality({ j \in 0..(i - 1) : Fenced(ls, j) })

RECURSIVE WithoutFenced(_, _)
WithoutFenced(ls, i) ==
  IF i >= Len(ls) THEN <<>>
  ELSE (IF Fenced(ls, i) THEN <<>> ELSE <<At(ls, i)>>)
         \o WithoutFenced(ls, i + 1)

Unfenced(r, ls) ==
  Range(r.startLine - FencedBefore(ls, r.startLine), r.startColumn,
        r.endLine - FencedBefore(ls, r.endLine), r.endColumn)

\* C4: no range on a fenced line, null on a fenced line, and the same result
\* as on the document without its fenced lines.
FencedCodeExclusion ==
  Returned =>
    LET ls == document.lines
        onStripped ==
          findMatchingBrackets(
            TextDocument(WithoutFenced(ls, 0), 0),
            [line |-> position.line - FencedBefore(ls, position.line),
             column |-> position.column]).ret
    IN /\ IsMatch(result) =>
            /\ ~Fenced(ls, result.opening.startLine)
            /\ ~Fenced(ls, result.closing.startLine)
       /\ Fenced(ls, position.line) => result = Null
       /\ ~Fenced(ls, position.line) =>
            onStripped =
              IF IsMatch(result)
              THEN BracketMatch(Unfenced(result.opening, ls),
                                Unfenced(result.closing, ls),
                                result.colonCount)
              ELSE Null

\* A pair is matched around a fenced region that holds a closing delimiter.
FencedCodeWitness ==
  /\ Returned
  /\ IsMatch(result)
  /\ \E l \in (result.opening.startLine + 1)..(result.closing.startLine - 1) :
       Fenced(document.lines, l) /\ IsClosingLine(LineAt(l))

(***************************************************************************)
(* C5.  Reference matching: in a document whose brackets all have one      *)
(* colon count, a query on a bracket returns the partner that classical    *)
(* balanced-bracket matching gives it, and null when that leaves it        *)
(* unpaired.                                                               *)
(***************************************************************************)
\* The pairs <<opening index, closing index>> of the classical left-to-right
\* stack matching of the brackets from index i on.
RECURSIVE ClassicalPairs(_, _, _)
ClassicalPairs(tokens, i, open) ==
  IF i >= Len(tokens) THEN {}
  ELSE IF At(tokens, i).isOpening
  THEN ClassicalPairs(tokens, i + 1, Append(open, i))
  ELSE IF Len(open) = 0
  THEN ClassicalPairs(tokens, i + 1, open)
  ELSE {<<Top(open), i>>} \cup ClassicalPairs(tokens, i + 1, Pop(open))

UniformCounts(tokens) ==
  \A i, j \in 1..Len(tokens) : tokens[i].colonCount = tokens[j].colonCount

\* The result is what classical matching gives the bracket at index idx.
AgreesWithClassical(tokens, idx) ==
  LET mine == { p \in ClassicalPairs(tokens, 0, <<>>) :
                  p[1] = idx \/ p[2] = idx }
  IN IF mine = {} THEN result = Null
     ELSE \E p \in mine :
            MatchOnLines(result, At(tokens, p[1]).line, At(tokens, p[2]).line)

ReferenceMatchingOn(tokens, idx) ==
  (idx # -1 /\ UniformCounts(tokens)) => AgreesWithClassical(tokens, idx)

\* C5: with one colon count throughout, the result is the classical partner
\* of the cursor's bracket, or null when it has none.
ReferenceMatching ==
  (Returned /\ InSpan(CursorLine, position.column)) =>
    \E tokens \in {Tokens} :
      ReferenceMatchingOn(tokens, findIndex(tokens, position.line))

\* The outer pair of two nested pairs, found from its closing delimiter.
ReferenceMatchingWitness ==
  /\ Returned
  /\ UniformCounts(Tokens)
  /\ Len(Tokens) = 4
  /\ IsMatch(result)
  /\ position.line = result.closing.startLine
  /\ result.opening.startLine = Tokens[1].line
  /\ result.closing.startLine = Tokens[4].line

(***************************************************************************)
(* C6.  Unmatched delimiters yield null: of two same-count openings        *)
(* followed by one closing, the outer one has no match and the inner one   *)
(* and the closing are matched to each other; an opening with no later     *)
(* closing and a closing all of whose earlier openings are consumed by     *)
(* earlier closings have no match.                                         *)
(***************************************************************************)
TwoOpeningsOneClosingIn(tokens) ==
  /\ Len(tokens) = 3
  /\ tokens[1].isOpening
  /\ tokens[2].isOpening
  /\ ~tokens[3].isOpening
  /\ UniformCounts(tokens)

TwoOpeningsOneClosing == TwoOpeningsOneClosingIn(Tokens)

\* The opening at index i is matched to a closing before index limit.
ConsumedBefore(tokens, i, limit) ==
  \E partner \in {findMatchingBracket(tokens, i)} :
    partner # Null /\ partner.line < At(tokens, limit).line

UnmatchedYieldNoneOn(tokens, idx) ==
  idx # -1 =>
    /\ TwoOpeningsOneClosingIn(tokens) =>
         IF idx = 0 THEN result = Null
         ELSE MatchOnLines(result, tokens[2].line, tokens[3].line)
    /\ ( /\ At(tokens, idx).isOpening
         /\ \A j \in (idx + 1)..(Len(tokens) - 1) : At(tokens, j).isOpening )
         => result = Null
    /\ ( /\ ~At(tokens, idx).isOpening
         /\ \A j \in 0..(idx - 1) :
              At(tokens, j).isOpening => ConsumedBefore(tokens, j, idx) )
         => result = Null

\* C6: the outer of two openings before one closing, an opening with no later
\* closing and a closing with no unconsumed earlier opening return null.
UnmatchedYieldNone ==
  (Returned /\ InSpan(CursorLine, position.column)) =>
    \E tokens \in {Tokens} :
      UnmatchedYieldNoneOn(tokens, findIndex(tokens, position.line))

\* The query on the outer of two openings that share one closing.
UnmatchedWitness ==
  /\ Returned
  /\ OnDelimiter
  /\ TwoOpeningsOneClosing
  /\ TokenIndex(position.line) = 0
  /\ result = Null

(***************************************************************************)
(* C7.  Cursor qualifying span: on a delimiter line that has a partner, a  *)
(* query returns a match exactly when the column lies from the first colon *)
(* to just after the name (opening) or just after the last colon           *)
(* (closing), both ends included.                                          *)
(***************************************************************************)
HasPartner(l) ==
  TokenIndex(l) # -1 /\ findMatchingBracket(Tokens, TokenIndex(l)) # Null

WellShaped(r) ==
  /\ r.startLine = r.endLine
  /\ 0 <= r.startColumn
  /\ r.startColumn < r.endColumn
  /\ r.endColumn <= Len(LineAt(r.startLine))

\* C9: opening before closing, single-line ranges on lines of the right role,
\* columns within the line.
ResultOrderingAndShape ==
  (Returned /\ IsMatch(result)) =>
    /\ result.opening.startLine < result.closing.startLine
    /\ WellShaped(result.opening)
    /\ WellShaped(result.closing)
    /\ IsOpeningLine(LineAt(result.opening.startLine))
    /\ IsClosingLine(LineAt(result.closing.startLine))

\* A match found with the cursor on the closing delimiter.
ResultOrderingWitness ==
  /\ Returned
  /\ IsMatch(result)
  /\ position.line = result.closing.startLine
  /\ position.line > 0

(***************************************************************************)
(* C10.  Fail-safe error handling: when getLine fails during a query, at   *)
(* whichever call, the query returns null; a failure is never propagated   *)
(* and a result is null or a match with both ranges.                       *)
(***************************************************************************)
GetLineFailed == document.failAt >= 1 /\ document.failAt <= getLineCalls

IsRange(r) ==
  /\ DOMAIN r = {"startLine", "startColumn", "endLine", "endColumn"}
  /\ \A f \in DOMAIN r : r[f] \in Nat

\* C10: a getLine failure gives null, never an exception and never a partial
\* match.
FailSafe ==
  Returned =>
    /\ GetLineFailed => result = Null
    /\ result # Throw
    /\ result # Null =>
         /\ DOMAIN result = {"opening", "closing", "colonCount"}
         /\ IsRange(result.opening)
         /\ IsRange(result.closing)

\* getLine fails on the last call of a query, the re-read of the closing line.
FailSafeWitness ==
  /\ Returned
  /\ GetLineFailed
  /\ getLineCalls = document.lineCount + 3
  /\ warned
  /\ result = Null

(***************************************************************************)
(* C12.  The size limit of registerBracketMatcher: an update on a text     *)
(* model of more than maxLineCount lines, maxLineCount above 0, makes no   *)
(* bracket query and leaves no decoration, tracked or in the model; with   *)
(* maxLineCount 0, or with maxLineCount lines or fewer, the update         *)
(* queries the matcher and decorates what it returns.                      *)
(***************************************************************************)
LimitApplies ==
  opts.maxLineCount > 0 /\ document.lineCount > opts.maxLineCount

\* What the matcher returns for the cursor of the editor.
CursorMatch ==
  findMatchingBrackets(createTextDocument(document), createPosition(cursor)).ret

\* C12: an update skips the query and clears the decorations exactly when the
\* model has more lines than a positive maxLineCount.
SizeLimit ==
  (pc = "updated" /\ hasModel) =>
    IF LimitApplies
    THEN /\ getLineCalls = 0
         /\ result = Pending
         /\ decorations = <<>>
         /\ modelDecorations = {}
    ELSE /\ getLineCalls >= 1
         /\ result = CursorMatch
         /\ Len(decorations) = IF IsMatch(result) THEN 2 ELSE 0
         /\ Cardinality(modelDecorations) = Len(decorations)

\* An update skipped on a model one line over the limit, with the cursor on a
\* delimiter that has a match.
SizeLimitWitness ==
  /\ pc = "updated"
  /\ hasModel
  /\ document.lineCount = opts.maxLineCount + 1
  /\ getLineCalls = 0
  /\ IsMatch(CursorMatch)
  /\ decorations = <<>>

(***************************************************************************)
(* C13.  dispose: once dispose() has been called, after whatever cursor    *)
(* events, the cursor listener is removed, no decoration of the matcher is *)
(* left in the model, the tracked list is empty, and a later cursor        *)
(* movement adds no decoration.                                            *)
(***************************************************************************)
\* C13: every state from dispose() on has no listener and no decoration.
DisposeCleansUp ==
  phase = "disposed" =>
    /\ ~listening
    /\ decorations = <<>>
    /\ modelDecorations = {}

\* After dispose(), the cursor has moved onto a delimiter that has a match.
DisposeCleansUpWitness ==
  /\ phase = "disposed"
  /\ pc = "moved"
  /\ hasModel
  /\ IsMatch(CursorMatch)
  /\ modelDecorations = {}

(***************************************************************************)
(* C14.  The whole-line fallback of createBracketRange is never taken for  *)
(* a bracket the scanner produced: each bracket's delimiter is located on  *)
(* its line.  The code does not have this property: a closing line with    *)
(* trailing whitespace is a bracket of the scanner, which trims, and no    *)
(* match of the closing pattern of createBracketRange, which does not.     *)
(***************************************************************************)
\* Neither branch of createBracketRange locates the delimiter of bracket.
TakesFallback(bracket) ==
  /\ ~(bracket.isOpening /\ OpeningAnywhereRe(LineAt(bracket.line)).found)
  /\ ~(~bracket.isOpening /\ ColonsAtEndRe(LineAt(bracket.line)).found)

\* C14: neither bracket of a match takes the whole-line fallback when its
\* range is built.
NoWholeLineFallbackCounterexample ==
  (Returned /\ IsMatch(result)) =>
    \E tokens \in {Tokens} :
      \A i \in 0..(Len(tokens) - 1) :
        At(tokens, i).line \in
            {result.opening.startLine, result.closing.startLine}
          => ~TakesFallback(At(tokens, i))

(***************************************************************************)
(* C15.  The forward search skips the closings whose colon count differs:  *)
(* an opening of N colons followed by closings of other counts and then a  *)
(* closing of N colons, no opening between, is matched to that closing,    *)
(* and each skipped closing leaves the stack as it was.                    *)
(***************************************************************************)
\* Bracket j is the first closing of the colon count of the opening idx, and
\* only closings of other counts lie between the two.
SkipsTo(tokens, idx, j) ==
  /\ At(tokens, idx).isOpening
  /\ idx < j
  /\ ~At(tokens, j).isOpening
  /\ At(tokens, j).colonCount = At(tokens, idx).colonCount
  /\ \A k \in (idx + 1)..(j - 1) :
       /\ ~At(tokens, k).isOpening
       /\ At(tokens, k).colonCount # At(tokens, idx).colonCount

DifferingClosingsSkippedOn(tokens, idx) ==
  \A j \in 0..(Len(tokens) - 1) :
    SkipsTo(tokens, idx, j) =>
      /\ MatchOnLines(result, position.line, At(tokens, j).line)
      /\ result.colonCount = At(tokens, idx).colonCount
      /\ \A k \in (idx + 1)..(j - 1) :
           forwardStep(<<At(tokens, idx)>>, At(tokens, k)) =
             [stack |-> <<At(tokens, idx)>>, found |-> FALSE]

\* C15: a query on an opening followed only by closings of other colon counts
\* and then a closing of its own count returns that closing.
DifferingClosingsSkipped ==
  (Returned /\ OnDelimiter) =>
    \E tokens \in {Tokens} :
      DifferingClosingsSkippedOn(tokens, findIndex(tokens, position.line))

\* An opening matched across a closing of another colon count.
DifferingClosingsSkippedWitness ==
  /\ Returned
  /\ IsMatch(result)
  /\ position.line = result.opening.startLine
  /\ result.closing.startLine = position.line + 2
  /\ IsClosingLine(LineAt(position.line + 1))
  /\ ColonRun(LineAt(position.line + 1)) # result.colonCount

(***************************************************************************)
(* C16.  The fence flag is a binary toggle that does not depend on the     *)
(* marker character: a line yields a bracket exactly when it is not a      *)
(* fence-marker line, an even number of fence-marker lines (backquote and  *)
(* tilde counted together) precede it, and it is an opening or a closing   *)
(* delimiter line.                                                         *)
(***************************************************************************)
YieldsToken(ls, i) ==
  /\ ~IsFenceLine(At(ls, i))
  /\ FencesBefore(ls, i) % 2 = 0
  /\ IsOpeningLine(At(ls, i)) \/ IsClosingLine(At(ls, i))

\* C16: the lines with a bracket are the delimiter lines after an even number
\* of fence-marker lines.
FenceToggle ==
  Returned =>
    \E tokens \in {Tokens} :
      \A i \in 0..(document.lineCount - 1) :
        (findIndex(tokens, i) # -1) <=> YieldsToken(document.lines, i)

\* A match around a region that a backquote line opens and a tilde line
\* closes, with a delimiter line inside it.
FenceToggleWitness ==
  /\ Returned
  /\ IsMatch(result)
  /\ \E i, j, k \in 0..(document.lineCount - 1) :
       /\ result.opening.startLine < i
       /\ i < j
       /\ j < k
       /\ k < result.closing.startLine
       /\ RunLength(LineAt(i), Indent(LineAt(i)), Backtick) >= 3
       /\ RunLength(LineAt(k), Indent(LineAt(k)), Tilde) >= 3
       /\ IsClosingLine(LineAt(j))
       /\ FencesBefore(document.lines, j) = 1

(***************************************************************************)
(* C17.  The scanner's output: the brackets are in strictly ascending line *)
(* order, at most one on a line, each of two colons or more, an opening    *)
(* with a name that is not empty and a closing with none; a document       *)
(* without a delimiter line, and the empty document, give no bracket.      *)
(***************************************************************************)
ScannerOutputOn(tokens) ==
  /\ \A i \in 0..(Len(tokens) - 2) :
       At(tokens, i).line < At(tokens, i + 1).line
  /\ \A i \in 0..(Len(tokens) - 1) :
       /\ At(tokens, i).line \in 0..(document.lineCount - 1)
       /\ At(tokens, i).colonCount >= 2
       /\ At(tokens, i).isOpening =>
            /\ ~At(tokens, i).tagName.isNull
            /\ Len(At(tokens, i).tagName.text) >= 1
       /\ ~At(tokens, i).isOpening => At(tokens, i).tagName = NullName
  /\ (\A l \in 0..(document.lineCount - 1) :
        ~IsOpeningLine(LineAt(l)) /\ ~IsClosingLine(LineAt(l)))
       => tokens = <<>>

\* C17: the invariant of the bracket sequence the scanner builds.
ScannerOutput ==
  Returned =>
    /\ \E tokens \in {Tokens} : ScannerOutputOn(tokens)
    /\ scanAllBrackets(TextDocument(<<>>, 0), 0).brackets = <<>>

\* A query that scanned a document of three brackets or more, of both roles.
ScannerOutputWitness ==
  /\ Returned
  /\ getLineCalls > document.lineCount
  /\ \E tokens \in {Tokens} :
       /\ Len(tokens) >= 3
       /\ \E i, j \in 0..(Len(tokens) - 1) :
            At(tokens, i).isOpening /\ ~At(tokens, j).isOpening

(***************************************************************************)
(* C18.  Early exit: when the classifier rejects the position, the query   *)
(* returns null after the one read of the cursor's line; the document is   *)
(* not scanned.                                                            *)
(***************************************************************************)
ClassifierRejects == detectBracketAtPosition(CursorLine, position.column) = Null

\* C18: a rejected position costs exactly one getLine call.
EarlyExit ==
  (Returned /\ ClassifierRejects) =>
    /\ result = Null
    /\ getLineCalls = 1
    /\ ~warned

\* A rejected position on a delimiter line of a document of several lines.
EarlyExitWitness ==
  /\ Returned
  /\ ClassifierRejects
  /\ IsOpeningLine(CursorLine)
  /\ document.lineCount >= 2
  /\ getLineCalls = 1

(***************************************************************************)
(* C19.  Classifier and scanner agree: when the classifier accepts a       *)
(* position whose line is outside every fenced region, the scanner has a   *)
(* bracket on that line, of the same role and colon count; so the exit for *)
(* a missing bracket is reached only for a line inside a fenced region.    *)
(* A fenced region is what follows an odd number of fence-marker lines,    *)
(* closed or not.                                                          *)
(***************************************************************************)
InsideFence(ls, i) == FencesBefore(ls, i) % 2 = 1

ClassifierScannerAgreementOn(tokens, idx) ==
  /\ ~InsideFence(document.lines, position.line) =>
       /\ idx # -1
       /\ At(tokens, idx).isOpening = IsOpeningLine(CursorLine)
       /\ At(tokens, idx).colonCount =
            detectBracketAtPosition(CursorLine, position.column).colonCount
  /\ idx = -1 =>
       /\ InsideFence(document.lines, position.line)
       /\ result = Null

\* C19: an accepted position outside the fenced regions has its bracket.
ClassifierScannerAgreement ==
  (Returned /\ ~ClassifierRejects) =>
    \E tokens \in {Tokens} :
      ClassifierScannerAgreementOn(tokens, findIndex(tokens, position.line))

\* The exit for a missing bracket: an accepted position inside a fenced
\* region of a document that has brackets.
ClassifierScannerAgreementWitness ==
  /\ Returned
  /\ ~ClassifierRejects
  /\ TokenIndex(position.line) = -1
  /\ Len(Tokens) > 0
  /\ InsideFence(document.lines, position.line)

(***************************************************************************)
(* C20.  The cursor's delimiter is one side of the result: of the opening  *)
(* and the closing line of a match, exactly one is the cursor's line, the  *)
(* opening when the cursor's line is an opening delimiter and the closing  *)
(* when it is a closing delimiter.                                         *)
(***************************************************************************)
\* C20: the match of a query has the cursor's line as the side of its role.
CursorIsOneSide ==
  (Returned /\ IsMatch(result)) =>
    /\ IsOpeningLine(CursorLine) \/ IsClosingLine(CursorLine)
    /\ IsOpeningLine(CursorLine) =>
         /\ result.opening.startLine = position.line
         /\ result.closing.startLine # position.line
    /\ IsClosingLine(CursorLine) =>
         /\ result.closing.startLine = position.line
         /\ result.opening.startLine # position.line

\* A match for a cursor on an opening that is not the first bracket.
CursorIsOneSideWitness ==
  /\ Returned
  /\ IsMatch(result)
  /\ position.line = result.opening.startLine
  /\ TokenIndex(position.line) > 0

(***************************************************************************)
(* C21.  Pairs found from opening queries never cross: when a query on an  *)
(* opening O1 returns the closing C1 and a query on another opening O2     *)
(* returns C2, the line intervals [O1, C1] and [O2, C2] are disjoint or    *)
(* one lies strictly inside the other; two openings never share a closing. *)
(***************************************************************************)
\* The match of a query at the first column of the delimiter of line l.
QueryOnLine(l) ==
  findMatchingBrackets(document,
                       [line |-> l, column |-> Indent(LineAt(l))]).ret

DisjointOrNested(o1, c1, o2, c2) ==
  \/ c1 < o2
  \/ c2 < o1
  \/ o1 < o2 /\ c2 < c1
  \/ o2 < o1 /\ c1 < c2

\* The pair of the opening of line l, if it has one, does not cross the pair
\* of the result.
DoesNotCross(l) ==
  \A other \in {QueryOnLine(l)} :
    IsMatch(other) =>
      DisjointOrNested(result.opening.startLine, result.closing.startLine,
                       other.opening.startLine, other.closing.startLine)

\* C21: the pair returned by a query on an opening crosses the pair of no
\* other opening of the document.
PairsNeverCross ==
  (Returned /\ IsMatch(result) /\ position.line = result.opening.startLine) =>
    \A l \in 0..(document.lineCount - 1) :
      (l # position.line /\ IsOpeningLine(LineAt(l))) => DoesNotCross(l)

\* A pair found from an opening, with a pair of another colon count strictly
\* inside it.
PairsNeverCrossWitness ==
  /\ Returned
  /\ IsMatch(result)
  /\ position.line = result.opening.startLine
  /\ \E l \in (position.line + 1)..(result.closing.startLine - 1) :
       /\ IsOpeningLine(LineAt(l))
       /\ IsMatch(QueryOnLine(l))
       /\ QueryOnLine(l).colonCount # result.colonCount
       /\ QueryOnLine(l).closing.startLine < result.closing.startLine

(***************************************************************************)
(* C22.  Decoration replacement: after every handled cursor event the      *)
(* matcher's decorations in the model are none (no match, no model, or a   *)
(* model over the size limit) or exactly two, on the opening and the       *)
(* closing range of the match for the cursor with every line and column    *)
(* one higher; the tracked list names exactly these, so nothing of an      *)
(* earlier cursor position accumulates or lingers.                         *)
(***************************************************************************)
ShiftedByOne(r) ==
  [startLineNumber |-> r.startLine + 1, startColumn |-> r.startColumn + 1,
   endLineNumber |-> r.endLine + 1, endColumn |-> r.endColumn + 1]

\* The decorations of the model are those of the match, tracked in the order
\* opening, closing.
DecoratesMatch(match) ==
  /\ Len(decorations) = 2
  /\ decorations[1] # decorations[2]
  /\ modelDecorations =
       { [id |-> decorations[1], range |-> ShiftedByOne(match.opening)],
         [id |-> decorations[2], range |-> ShiftedByOne(match.closing)] }

\* C22: after an update the model holds the two decorations of the current
\* match, or none.
DecorationReplacement ==
  pc = "updated" =>
    IF hasModel /\ ~LimitApplies /\ IsMatch(CursorMatch)
    THEN DecoratesMatch(CursorMatch)
    ELSE decorations = <<>> /\ modelDecorations = {}

\* The decorations of a match that replaced those of an earlier match: their
\* identifiers are not the first two the model gave out.
DecorationReplacementWitness ==
  /\ pc = "updated"
  /\ IsMatch(result)
  /\ Len(decorations) = 2
  /\ decorations[1] >= 2
  /\ Cardinality(modelDecorations) = 2

(***************************************************************************)
(* C23.  The adapter never breaks the host: an update never lets an        *)
(* exception leave updateBracketDecorations, whichever calls of getModel,  *)
(* getLineCount, getLineContent and deltaDecorations throw, and after a    *)
(* failure no decoration is tracked or left in the model.  The code does   *)
(* not have this property: the catch block calls getModel and              *)
(* deltaDecorations again, outside any try.                                *)
(***************************************************************************)
\* The last update met a failing call: one that reached the adapter's catch
\* block, or a getLineContent that the matcher caught.
UpdateFailed ==
  \/ pc \in {"recovered", "threw"}
  \/ pc = "updated" /\ warned

\* C23: an update that met a failing call returns normally and leaves no
\* decoration.
NeverBreaksHostCounterexample ==
  UpdateFailed =>
    /\ pc # "threw"
    /\ decorations = <<>>
    /\ modelDecorations = {}

====
